---- MODULE Spec2Model ----
(***************************************************************************)
(* crontabcheck: the line grammar of src/parser.rs and the driver loop of  *)
(* src/main.rs.                                                            *)
(*                                                                         *)
(* A byte is a one-character string, a byte slice a sequence of them.  A   *)
(* parser's outcome (nom's IResult) is a record                            *)
(*     [tag, rest, out, err]                                               *)
(* tag "Done" (rest: the unconsumed input, out: the bytes a leaf parser    *)
(* recognised), "Error" (err: the chain of causes, outermost first, each   *)
(* with the input at the point of failure) or "Incomplete" (the parser     *)
(* reached the end of its input before it could decide; the Needed count   *)
(* is not kept, no caller reads it).                                       *)
(*                                                                         *)
(* The combinators are those of the nom the source is written against      *)
(* (IResult::{Done, Error, Incomplete}, add_return_error!, verbose         *)
(* errors): digit, space, alphanumeric and tag! answer Incomplete when the *)
(* input ends before they can decide, complete! turns that into an Error,  *)
(* separated_nonempty_list! ends the list, without an error, before a      *)
(* separator whose element fails.                                          *)
(***************************************************************************)
EXTENDS Integers, Sequences, FiniteSets, TLC

VARIABLES
    pc,                 \* where the program is
    input,              \* the byte slice handed to the parser
    options,            \* CrontabParserOptions.allowed_usernames
    kind,               \* the value parser (field kind) a field-level call was given
    result,             \* the IResult of the last parser call
    stdin,              \* what standard input will yield: Ok(line) or ReadError
    passwd,             \* the -p flag and what reading /etc/passwd yields
    lineno,             \* how many entries of stdin have been consumed
    parsed,             \* the indices of the lines handed to parse_crontab, in order
    printed,            \* what the driver printed
    exit_code           \* run's return value, -1 while running

vars == <<pc, input, options, kind, result, stdin, passwd, lineno, parsed, printed, exit_code>>

---------------------------------------------------------------------------
(* Bytes *)

DigitChars == <<"0", "1", "2", "3", "4", "5", "6", "7", "8", "9">>

Digits == {DigitChars[i] : i \in 1..10}

Letters ==
    {"a", "b", "c", "d", "e", "f", "g", "h", "i", "j", "k", "l", "m",
     "n", "o", "p", "q", "r", "s", "t", "u", "v", "w", "x", "y", "z",
     "A", "B", "C", "D", "E", "F", "G", "H", "I", "J", "K", "L", "M",
     "N", "O", "P", "Q", "R", "S", "T", "U", "V", "W", "X", "Y", "Z"}

\* nom::is_digit
is_digit(c) == c \in Digits

\* nom::is_alphanumeric
is_alphanumeric(c) == c \in Digits \cup Letters

\* nom::is_space
is_space(c) == c = " " \/ c = "\t"

DigitVal(c) == (CHOOSE i \in 1..10 : DigitChars[i] = c) - 1

Take(s, n) == SubSeq(s, 1, n)

Drop(s, n) == SubSeq(s, n + 1, Len(s))

Min(S) == CHOOSE x \in S : \A y \in S : x <= y

---------------------------------------------------------------------------
(* Outcomes *)

Done(rest, out) == [tag |-> "Done", rest |-> rest, out |-> out, err |-> <<>>]

Error(chain) == [tag |-> "Error", rest |-> <<>>, out |-> <<>>, err |-> chain]

Incomplete == [tag |-> "Incomplete", rest |-> <<>>, out |-> <<>>, err |-> <<>>]

\* One node of an error chain: ErrorKind (for ErrorKind::Custom the
\* CrontabSyntaxError variant and its fields) and the position.
Node(k, value, min, max, reason, at) ==
    [kind |-> k, value |-> value, min |-> min, max |-> max, reason |-> reason, at |-> at]

\* error_position!(kind, input) for a kind without fields
Position(k, at) == <<Node(k, 0, 0, 0, "", at)>>

\* error_node_position!(kind, input, cause)
NodePosition(k, at, cause) == Position(k, at) \o cause

---------------------------------------------------------------------------
(* nom's leaf parsers *)

\* let x = v; F(x): v is computed once
Let(v, F(_)) == CHOOSE r \in {F(x) : x \in {v}} : TRUE

\* How many leading bytes of s satisfy P.
Span(P(_), s) ==
    LET bad == {n \in 1..Len(s) : ~P(s[n])}
    IN  IF bad = {} THEN Len(s) ELSE Min(bad) - 1

\* digit, space, alphanumeric: one or more bytes of a class; Incomplete on
\* empty input, Error when the first byte is not of the class.
one_or_more(P(_), errkind, i) ==
    IF Len(i) = 0 THEN Incomplete
    ELSE Let(Span(P, i), LAMBDA n :
            IF n = 0 THEN Error(Position(errkind, i))
            ELSE Done(Drop(i, n), Take(i, n)))

digit(i) == one_or_more(is_digit, "Digit", i)

space(i) == one_or_more(is_space, "Space", i)

alphanumeric(i) == one_or_more(is_alphanumeric, "AlphaNumeric", i)

\* tag!(t): the common prefix is compared first; a matching input shorter
\* than the tag is Incomplete.
tag(i, t) ==
    LET m == IF Len(i) < Len(t) THEN Len(i) ELSE Len(t)
    IN  IF Take(i, m) # Take(t, m) THEN Error(Position("Tag", i))
        ELSE IF m < Len(t) THEN Incomplete
        ELSE Done(Drop(i, Len(t)), Take(i, Len(t)))

\* complete!: Incomplete becomes an error
complete(r, i) == IF r.tag = "Incomplete" THEN Error(Position("Complete", i)) ELSE r

\* alt_complete!(tag!(t1) | tag!(t2) | ...): the first tag that matches
alt_complete_tags(i, tags) ==
    Let({n \in 1..Len(tags) : complete(tag(i, tags[n]), i).tag = "Done"}, LAMBDA hits :
        IF hits = {} THEN Error(Position("Alt", i))
        ELSE tag(i, tags[Min(hits)]))

---------------------------------------------------------------------------
(* Bounded integers *)

I32Max == 2147483647

\* str::parse::<i32> of a run of decimal digits: checked multiply and add,
\* -1 (None) on overflow.
RECURSIVE parse_i32_from(_, _, _)
parse_i32_from(acc, ds, n) ==
    IF n > Len(ds) THEN acc
    ELSE LET d == DigitVal(ds[n])
         IN  IF acc > I32Max \div 10 \/ (acc = I32Max \div 10 /\ d > I32Max % 10)
             THEN -1
             ELSE Let(acc * 10 + d, LAMBDA next : parse_i32_from(next, ds, n + 1))

parse_i32(ds) == parse_i32_from(0, ds, 1)

ValueOutOfBounds(value, min, max, at) ==
    <<Node("ValueOutOfBounds", value, min, max, "", at)>>

\* The match on digit(input) with the upper bound taken as exclusive
parse_within_bounds_lt(i, min, max) ==
    Let(digit(i), LAMBDA digits :
        CASE digits.tag = "Done" ->
                Let(parse_i32(digits.out), LAMBDA int :
                    IF int = -1 THEN Error(Position("InvalidNumericValue", i))
                    ELSE IF int < min \/ int >= max
                         THEN Error(ValueOutOfBounds(int, min, max, i))
                         ELSE Done(digits.rest, <<>>))
          [] digits.tag = "Error" -> Error(Position("InvalidNumericValue", i))
          [] OTHER -> Incomplete)

parse_within_bounds(i, min, max) ==
    Let(digit(i), LAMBDA digits :
        CASE digits.tag = "Done" ->
                Let(parse_i32(digits.out), LAMBDA int :
                    IF int = -1 THEN Error(Position("InvalidNumericValue", i))
                    ELSE IF int < min \/ int > max
                         THEN Error(ValueOutOfBounds(int, min, max, i))
                         ELSE Done(digits.rest, <<>>))
          [] digits.tag = "Error" -> Error(Position("InvalidNumericValue", i))
          [] OTHER -> Incomplete)

---------------------------------------------------------------------------
(* Value parsers *)

FieldKinds == {"minute", "hour", "day_of_month", "month", "day_of_week"}

minute_value_parser(i) == parse_within_bounds(i, 0, 59)

hour_value_parser(i) == parse_within_bounds(i, 0, 24)

day_of_month_value_parser(i) == parse_within_bounds(i, 0, 31)

MonthNames ==
    << <<"j", "a", "n">>, <<"f", "e", "b">>, <<"m", "a", "r">>, <<"a", "p", "r">>,
       <<"m", "a", "y">>, <<"j", "u", "n">>, <<"j", "u", "l">>, <<"a", "u", "g">>,
       <<"s", "e", "p">>, <<"o", "c", "t">>, <<"n", "o", "v">>, <<"d", "e", "c">> >>

DayNames ==
    << <<"m", "o", "n">>, <<"t", "u", "e">>, <<"w", "e", "d">>, <<"t", "h", "u">>,
       <<"f", "r", "i">>, <<"s", "a", "t">>, <<"s", "u", "n">> >>

month_value_parser(i) ==
    Let(alt_complete_tags(i, MonthNames), LAMBDA parsed_ :
        CASE parsed_.tag = "Done" -> Done(parsed_.rest, <<>>)
          [] parsed_.tag = "Incomplete" -> Incomplete
          [] OTHER -> parse_within_bounds(i, 1, 12))

day_of_week_value_parser(i) ==
    Let(alt_complete_tags(i, DayNames), LAMBDA parsed_ :
        CASE parsed_.tag = "Done" -> Done(parsed_.rest, <<>>)
          [] parsed_.tag = "Incomplete" -> Incomplete
          [] OTHER -> parse_within_bounds(i, 0, 7))

\* A call through the fn pointer value_parser.
value_parser(k, i) ==
    CASE k = "minute" -> minute_value_parser(i)
      [] k = "hour" -> hour_value_parser(i)
      [] k = "day_of_month" -> day_of_month_value_parser(i)
      [] k = "month" -> month_value_parser(i)
      [] k = "day_of_week" -> day_of_week_value_parser(i)

---------------------------------------------------------------------------
(* Fields *)

\* The step's result handed on as it is, an Error not wrapped
parse_period_nowrap(i, k) ==
    Let(tag(i, <<"*">>), LAMBDA out :
        IF out.tag = "Done"
        THEN Let(tag(out.rest, <<"/">>), LAMBDA next :
                IF next.tag = "Done"
                THEN value_parser(k, next.rest)
                ELSE Done(out.rest, <<>>))
        ELSE Error(Position("InvalidPeriodField", i)))

\* parse '*/2'.  add_return_error! wraps an Error of the step and hands
\* Done and Incomplete through.
parse_period(i, k) ==
    Let(tag(i, <<"*">>), LAMBDA out :
        IF out.tag = "Done"
        THEN Let(tag(out.rest, <<"/">>), LAMBDA next :
                IF next.tag = "Done"
                THEN Let(value_parser(k, next.rest), LAMBDA step :
                        IF step.tag = "Error"
                        THEN Error(NodePosition("InvalidPeriodField", next.rest, step.err))
                        ELSE step)
                ELSE Done(out.rest, <<>>))
        ELSE Error(Position("InvalidPeriodField", i)))

parse_range_or_value(i, k) ==
    Let(value_parser(k, i), LAMBDA parsed_value :
        IF parsed_value.tag # "Done" THEN parsed_value
        ELSE Let(tag(parsed_value.rest, <<"-">>), LAMBDA separator :
                CASE separator.tag = "Error" -> parsed_value
                  [] separator.tag = "Incomplete" -> Incomplete
                  [] OTHER -> value_parser(k, separator.rest)))

\* The loop of separated_nonempty_list!(tag!(","), parse_range_or_value)
\* after an element: i is the input after the elements taken so far.
RECURSIVE separated_list_loop(_, _)
separated_list_loop(i, k) ==
    Let(tag(i, <<",">>), LAMBDA sep :
        CASE sep.tag = "Error" -> Done(i, <<>>)
          [] sep.tag = "Incomplete" -> Incomplete
          [] OTHER ->
                IF Len(sep.rest) = Len(i) THEN Done(i, <<>>)
                ELSE Let(parse_range_or_value(sep.rest, k), LAMBDA el :
                        CASE el.tag = "Error" -> Done(i, <<>>)
                          [] el.tag = "Incomplete" -> Incomplete
                          [] OTHER ->
                                IF Len(el.rest) = Len(sep.rest) THEN Done(i, <<>>)
                                ELSE separated_list_loop(el.rest, k)))

separated_nonempty_list(i, k) ==
    Let(parse_range_or_value(i, k), LAMBDA first :
        CASE first.tag = "Error" -> first
          [] first.tag = "Incomplete" -> Incomplete
          [] OTHER ->
                IF Len(first.rest) = Len(i)
                THEN Error(Position("SeparatedNonEmptyList", i))
                ELSE separated_list_loop(first.rest, k))

\* parse 2,12-23
parse_enum(i, k) ==
    Let(separated_nonempty_list(i, k), LAMBDA list :
        IF list.tag = "Error"
        THEN Error(NodePosition("InvalidEnumField", i, list.err))
        ELSE list)

\* a field is either a frequency (*/2) or an enumeration (2-4,5)
parse_field(i, k) ==
    Let(tag(i, <<"*">>), LAMBDA peek :
        CASE peek.tag = "Error" -> parse_enum(i, k)
          [] peek.tag = "Done" -> parse_period(i, k)
          [] OTHER -> Incomplete)

\* Incomplete taken for a missing separator
parse_field_separator_strict(i) ==
    Let(space(i), LAMBDA parsed_ :
        IF parsed_.tag = "Done" THEN Done(parsed_.rest, <<>>)
        ELSE Error(Position("InvalidFieldSeparator", i)))

parse_field_separator(i) ==
    Let(space(i), LAMBDA parsed_ :
        CASE parsed_.tag = "Done" -> Done(parsed_.rest, <<>>)
          [] parsed_.tag = "Error" -> Error(Position("InvalidFieldSeparator", i))
          [] OTHER -> Incomplete)

---------------------------------------------------------------------------
(* User and command line *)

\* Option<&[T]>: None, or Some of a sequence of names
None == [some |-> FALSE, names |-> <<>>]

Some(names) == [some |-> TRUE, names |-> names]

\* Every name taken for valid
is_valid_username_any(name, allowed_usernames) == TRUE

is_valid_username(name, allowed_usernames) ==
    IF ~allowed_usernames.some THEN TRUE
    ELSE \E n \in 1..Len(allowed_usernames.names) : allowed_usernames.names[n] = name

\* The user column taken up to the next space or tab
parse_user_column(i, allowed_usernames) ==
    IF Len(i) = 0 THEN Incomplete
    ELSE Let(Span(LAMBDA c : ~is_space(c), i), LAMBDA n :
            IF n > 0 /\ is_valid_username(Take(i, n), allowed_usernames)
            THEN Done(Drop(i, n), <<>>)
            ELSE Error(Position("InvalidUsername", i)))

\* from_utf8 of an alphanumeric (ASCII) token never fails.
parse_user(i, allowed_usernames) ==
    Let(alphanumeric(i), LAMBDA parsed_ :
        CASE parsed_.tag = "Done" ->
                IF is_valid_username(parsed_.out, allowed_usernames)
                THEN Done(parsed_.rest, <<>>)
                ELSE Error(Position("InvalidUsername", i))
          [] parsed_.tag = "Error" -> Error(Position("InvalidUsername", i))
          [] OTHER -> Incomplete)

MaxCommandLine == 999

TooLong == "command line can not exceed 999 characters"

SpecialChar == "special char % should not be used"

InvalidCommandLine(reason, at) == <<Node("InvalidCommandLine", 0, 0, 0, reason, at)>>

\* The command handed back as the remainder
parse_command_line_keep(i) ==
    IF Len(i) > MaxCommandLine THEN Error(InvalidCommandLine(TooLong, i))
    ELSE IF \E n \in 1..Len(i) : i[n] = "%" THEN Error(InvalidCommandLine(SpecialChar, i))
    ELSE Done(i, <<>>)

\* The length limit taken as exclusive
parse_command_line_ge(i) ==
    IF Len(i) >= MaxCommandLine THEN Error(InvalidCommandLine(TooLong, i))
    ELSE IF \E n \in 1..Len(i) : i[n] = "%" THEN Error(InvalidCommandLine(SpecialChar, i))
    ELSE Done(<<>>, <<>>)

\* consume all input, make sure there are not special characters in the command line
parse_command_line(i) ==
    IF Len(i) > MaxCommandLine THEN Error(InvalidCommandLine(TooLong, i))
    ELSE IF \E n \in 1..Len(i) : i[n] = "%" THEN Error(InvalidCommandLine(SpecialChar, i))
    ELSE Done(<<>>, <<>>)

---------------------------------------------------------------------------
(* Line shapes *)

\* do_parse!(take_while_s!(is_space) >> tag!("#") >> ()); take_while never fails
parse_comment(i) ==
    Let(tag(Drop(i, Span(is_space, i)), <<"#">>), LAMBDA out :
        IF out.tag = "Done" THEN Done(<<>>, <<>>) ELSE out)

\* do_parse!(alphanumeric >> tag!("=") >> ())
parse_environnment_variable(i) ==
    Let(alphanumeric(i), LAMBDA name :
        IF name.tag # "Done" THEN name
        ELSE Let(tag(name.rest, <<"=">>), LAMBDA out :
                IF out.tag = "Done" THEN Done(<<>>, <<>>) ELSE out))

parse_empty_line(i) ==
    IF \E n \in 1..Len(i) : ~is_space(i[n])
    THEN Error(Position("Space", i))
    ELSE Done(<<>>, <<>>)

\* The steps of the do_parse! chain of the schedule line.
Steps ==
    <<"minute", "sep", "hour", "sep", "day_of_month", "sep", "month", "sep",
      "day_of_week", "sep", "user", "sep", "command">>

step_parser(s, i, opts) ==
    CASE s = "sep" -> parse_field_separator(i)
      [] s = "user" -> parse_user(i, opts)
      [] s = "command" -> parse_command_line(i)
      [] OTHER -> parse_field(i, s)

\* do_parse!: the steps in order, each on the rest of the one before; the
\* first Error or Incomplete is the result.
RECURSIVE do_parse(_, _, _)
do_parse(n, i, opts) ==
    IF n > Len(Steps) THEN Done(i, <<>>)
    ELSE Let(step_parser(Steps[n], i, opts), LAMBDA r :
            IF r.tag = "Done" THEN do_parse(n + 1, r.rest, opts) ELSE r)

\* actual crontab line
crontab_line(i, opts) == do_parse(1, i, opts)

---------------------------------------------------------------------------
(* parse_crontab, one action per attempt *)

NoResult == [tag |-> "None", rest |-> <<>>, out |-> <<>>, err |-> <<>>]

\* if let Done(..) = result { return result; }, else go on to the next attempt
Attempt(here, r, next) ==
    /\ pc = here
    /\ result' = r
    /\ pc' = IF r.tag = "Done" THEN "returned" ELSE next
    /\ UNCHANGED <<input, options, kind, stdin, passwd, lineno, parsed, printed, exit_code>>

TryEmptyLine == Attempt("parse_empty_line", parse_empty_line(input), "parse_comment")

TryComment == Attempt("parse_comment", parse_comment(input), "parse_environnment_variable")

TryEnvironmentVariable ==
    Attempt("parse_environnment_variable", parse_environnment_variable(input), "crontab_line")

CrontabLine_keep ==
    /\ pc = "crontab_line"
    /\ result' = IF crontab_line(input, options).tag = "Done"
                 THEN crontab_line(input, options) ELSE result
    /\ pc' = "returned"
    /\ UNCHANGED <<input, options, kind, stdin, passwd, lineno, parsed, printed, exit_code>>

CrontabLine ==
    /\ pc = "crontab_line"
    /\ result' = crontab_line(input, options)
    /\ pc' = "returned"
    /\ UNCHANGED <<input, options, kind, stdin, passwd, lineno, parsed, printed, exit_code>>

parse_crontab == TryEmptyLine \/ TryComment \/ TryEnvironmentVariable \/ CrontabLine

---------------------------------------------------------------------------
(* run, the driver loop *)

\* What lines() yields: Ok(line) or Err
Ok(line) == [ok |-> TRUE, line |-> line]

ReadError == [ok |-> FALSE, line |-> <<>>]

\* A println!: the message, the line it is about, the error chain walk_errors renders
Message(what, line, chain) == [what |-> what, line |-> line, chain |-> chain]

Idle ==
    /\ stdin = <<>>
    /\ passwd = [flag |-> FALSE, ok |-> TRUE, names |-> <<>>]
    /\ lineno = 0
    /\ parsed = <<>>
    /\ printed = <<>>
    /\ exit_code = -1

Exit(code, msg) ==
    /\ pc' = "exit"
    /\ exit_code' = code
    /\ printed' = Append(printed, msg)

\* allowed_usernames from the -u values, extended with /etc/passwd under -p
ReadUsernames ==
    /\ pc = "args"
    /\ IF ~passwd.flag
       THEN /\ pc' = "loop"
            /\ UNCHANGED <<options, printed, exit_code>>
       ELSE IF passwd.ok
       THEN /\ pc' = "loop"
            /\ options' = Some(options.names \o passwd.names)
            /\ UNCHANGED <<printed, exit_code>>
       ELSE /\ Exit(2, Message("could not read usernames from /etc/passwd", 0, <<>>))
            /\ UNCHANGED options
    /\ UNCHANGED <<input, kind, result, stdin, passwd, lineno, parsed>>

\* for input in stdin.lock().lines(): the next line, a read error, or the end
NextLine ==
    /\ pc = "loop"
    /\ IF lineno = Len(stdin)
       THEN /\ pc' = "exit"
            /\ exit_code' = 0
            /\ UNCHANGED <<input, result, lineno, parsed, printed>>
       ELSE IF ~stdin[lineno + 1].ok
       THEN /\ Exit(2, Message("could no read from stdin", lineno + 1, <<>>))
            /\ lineno' = lineno + 1
            /\ UNCHANGED <<input, result, parsed>>
       ELSE /\ lineno' = lineno + 1
            /\ input' = stdin[lineno + 1].line
            /\ parsed' = Append(parsed, lineno + 1)
            /\ result' = NoResult
            /\ pc' = "parse_empty_line"
            /\ UNCHANGED <<printed, exit_code>>
    /\ UNCHANGED <<options, kind, stdin, passwd>>

\* match out { Done => (), Incomplete => return 1, Error => return 1 }
MatchOut_continue ==
    /\ pc = "returned"
    /\ pc' = "loop"
    /\ UNCHANGED <<printed, exit_code>>
    /\ UNCHANGED <<input, options, kind, result, stdin, passwd, lineno, parsed>>

MatchOut ==
    /\ pc = "returned"
    /\ CASE result.tag = "Done" ->
                /\ pc' = "loop"
                /\ UNCHANGED <<printed, exit_code>>
         [] result.tag = "Incomplete" ->
                Exit(1, Message("Invalid line (incomplete crontab)", lineno, <<>>))
         [] OTHER ->
                Exit(1, Message("Invalid line", lineno, result.err))
    /\ UNCHANGED <<input, options, kind, result, stdin, passwd, lineno, parsed>>

run == ReadUsernames \/ NextLine \/ MatchOut


---------------------------------------------------------------------------
(* Inputs *)

\* Texts of the minute field, valid and not
MinuteTexts ==
    {<<"*">>, <<"*", "/", "3">>, <<"8">>, <<"1", "-", "2">>, <<"1", ",", "2">>, <<"6", "0">>,
     <<"1", ",", "9", "9">>, <<"*", "/">>, <<"1", ",">>}

ValidMinuteTexts ==
    {<<"*">>, <<"*", "/", "3">>, <<"8">>, <<"1", "-", "2">>, <<"1", ",", "2">>}

MonthTexts ==
    {<<"*">>, <<"j", "a", "n">>, <<"1", "3">>}

DayOfWeekTexts ==
    {<<"*">>, <<"m", "o", "n", ",", "t", "u", "e">>, <<"0", "-", "7">>}

Separators ==
    {<<" ">>, <<" ", "\t">>}

\* User columns; the last ones hold a byte that is not alphanumeric
PlainUsers ==
    {<<"r", "o", "o", "t">>, <<"t", "o", "o", "r">>}

OddUsers ==
    {<<"m", "y", "-", "u", "s", "e", "r">>, <<"m", "y", "_", "u", "s", "e", "r">>,
     <<"_", "x">>, <<"r", "o", "o", "t", "-">>}

Commands ==
    {<<"x">>, <<"/", "b", "i", "n", "/", "a", " ", "b">>, <<"a", "%", "b">>, <<>>}

Star == <<"*">>

\* minute sep * sep * sep month sep day-of-week sep
FieldsOf(m, s, mo, d) == m \o s \o Star \o s \o Star \o s \o mo \o s \o d \o s

ScheduleLines ==
    {FieldsOf(m, s, mo, d) \o u \o s \o c :
        m \in MinuteTexts, s \in Separators, mo \in MonthTexts, d \in DayOfWeekTexts,
        u \in PlainUsers \cup OddUsers, c \in Commands}

\* Lines of the other three shapes, and near misses
ShapeLines ==
    {<<>>, <<" ">>, <<" ", "\t", " ">>, <<"#">>,
     <<"#", "T", "h", "i", "s", " ", "i", "s", " ", "a", " ", "c", "o", "m", "m", "e", "n", "t">>,
     <<" ", "\t", "#", " ", "*", " ", "*">>, <<"V", "=">>,
     <<"V", "A", "R", "I", "A", "B", "L", "E", "=", "V", "A", "L", "U", "E">>, <<"V">>,
     <<"V", " ", "=">>, <<"=", "x">>, <<"5", "=">>, <<" ", "V", "=", "1">>, <<"a", "#", "b">>,
     <<"a", " ", "b", "=", "c">>, <<"%">>}

\* Whole lines that stop early
BaseLines ==
    {
     <<"*", "/", "3", " ", "*", " ", "*", " ", "j", "a", "n", " ", "m", "o", "n", ",", "t", "u", "e", " ", "r", "o", "o", "t", " ", "x">>,
     <<"8", " ", "*", " ", "*", " ", "*", " ", "*", "/", " ", "r", "o", "o", "t">>,
     <<"*", " ", "*", " ", "*", " ", "*", " ", "*", " ", "m", "y", "-", "u", "s", "e", "r", " ", "x">>,
     <<"*", " ", "*", " ", "*", " ", "*", " ", "*", " ", "r", "o", "o", "t", " ", "x">>,
     <<"1", "-", "2", " ", "\t", "*", " ", "\t", "*", " ", "\t", "*", " ", "\t", "0", "-", "7", " ", "\t", "t", "o", "o", "r", " ", "\t", "x">>}

Prefixes(l) == {Take(l, n) : n \in 0..Len(l)}

\* A schedule line behind the start of a comment or of an assignment
Decorated ==
    {p \o l : p \in {<<"#">>, <<" ", "#">>, <<"V", "=">>, <<"5", "=">>},
              l \in {FieldsOf(m, <<" ">>, Star, Star) \o <<"r", "o", "o", "t", " ", "x">> :
                        m \in MinuteTexts}}

Lines == ScheduleLines \cup ShapeLines \cup Decorated \cup UNION {Prefixes(l) : l \in BaseLines}

AllowLists ==
    {None, Some(<<>>), Some(<< <<"r", "o", "o", "t">> >>),
     Some(<< <<"r", "o", "o", "t">>, <<"m", "y", "-", "u", "s", "e", "r">>, <<"m", "y", "_", "u", "s", "e", "r">> >>),
     Some(<< <<"m", "y">>, <<"m", "y", "-", "u", "s", "e", "r">> >>)}

---------------------------------------------------------------------------
(* Specifications *)

\* parse_crontab on one line, as the tests call it
InitLine ==
    /\ pc = "parse_empty_line"
    /\ input \in Lines
    /\ options \in AllowLists
    /\ kind = "none"
    /\ result = NoResult
    /\ Idle

SpecLine == InitLine /\ [][parse_crontab]_vars


\* A parser called on its own, as the unit tests call it
InitCall(inputs, opts) ==
    /\ pc = "call"
    /\ input \in inputs
    /\ options \in opts
    /\ kind = "none"
    /\ result = NoResult
    /\ Idle

Return(k, r) ==
    /\ pc = "call"
    /\ kind' = k
    /\ result' = r
    /\ pc' = "returned"
    /\ UNCHANGED <<input, options, stdin, passwd, lineno, parsed, printed, exit_code>>

(* Value parsers *)

NegSpan == 3

MaxSample == 70

\* The decimal text of an integer
RECURSIVE DecimalText(_)
DecimalText(n) ==
    IF n < 0 THEN <<"-">> \o DecimalText(-n)
    ELSE IF n < 10 THEN <<DigitChars[n + 1]>>
    ELSE DecimalText(n \div 10) \o <<DigitChars[(n % 10) + 1]>>

IntSamples == (-NegSpan..MaxSample) \cup {I32Max - 1, I32Max}

\* Digit runs above i32::MAX
OverflowTexts ==
    {<<"2", "1", "4", "7", "4", "8", "3", "6", "4", "8">>,
     <<"2", "1", "4", "7", "4", "8", "3", "6", "5", "0">>,
     <<"3", "0", "0", "0", "0", "0", "0", "0", "0", "0">>,
     <<"9", "9", "9", "9", "9", "9", "9", "9", "9", "9", "9">>}

OtherValueTexts ==
    {<<>>, <<"j", "a", "n">>, <<"d", "e", "c">>, <<"m", "o", "n">>, <<"s", "u", "n">>,
     <<"j", "a">>, <<"J", "a", "n">>, <<"x">>, <<"5", " ">>, <<"m", "o", "n", " ">>,
     <<"1", "2", "-">>, <<"0", "0", "7">>, <<"+", "5">>, <<" ", "5">>}

ValueInputs == {DecimalText(n) : n \in IntSamples} \cup OverflowTexts \cup OtherValueTexts

CallValueParser == \E k \in FieldKinds : Return(k, value_parser(k, input))

SpecValue == InitCall(ValueInputs, {None}) /\ [][CallValueParser]_vars

(* Periods *)

MaxStep == 61

PeriodTexts ==
    {<<"*">>, <<"*", " ">>, <<"*", "x">>, <<"*", ",">>, <<"*", "*">>, <<"*", "/">>,
     <<"*", "/", "a", "b", "c">>, <<"*", "/", " ", "2">>, <<"*", "/", "-", "1">>,
     <<"*", "/", "j", "a", "n">>, <<"*", "/", "m", "o", "n">>, <<"*", "/", "2", " ">>,
     <<"*", "/", "3", ",", "4">>, <<"x">>, <<>>, <<"5">>, <<"/", "2">>, <<" ", "*">>}

PeriodInputs == {<<"*", "/">> \o DecimalText(n) : n \in 0..MaxStep} \cup PeriodTexts

CallParsePeriod == \E k \in FieldKinds : Return(k, parse_period(input, k))

SpecPeriod == InitCall(PeriodInputs, {None}) /\ [][CallParsePeriod]_vars

(* Enumerations *)

\* Elements that every value parser takes
GoodElements ==
    {<<"1">>, <<"1", "-", "2">>, <<"6", "-", "7">>, <<"4">>, <<"7", "-", "1">>}

\* Elements that no value parser takes
BadElements ==
    {<<"9", "9">>, <<"x">>, <<"1", "-", "9", "9">>, <<"1", "-", "x">>, <<"-">>}

\* What follows the list
ListTails ==
    {<<" ">>, <<" ", "*">>, <<"x">>}

EnumTexts ==
    {<<>>, <<",", "1">>, <<"1", ",">>, <<"1">>, <<"1", "-", "2">>, <<"1", ",", "2">>,
     <<"1", "-", "2", ",", "4", ",", "6", "-", "8">>, <<"1", "-">>, <<",">>,
     <<"m", "o", "n", "-", "t", "u", "e", " ">>, <<"j", "a", "n", ",", "f", "e", "b", " ">>,
     <<"1", ",", ",", "2", " ">>}

EnumInputs ==
    {a \o t : a \in GoodElements \cup BadElements, t \in ListTails}
    \cup {a \o <<",">> \o b \o t :
            a \in GoodElements \cup BadElements, b \in GoodElements \cup BadElements,
            t \in ListTails}
    \cup {a \o <<",">> \o b \o <<",">> \o c \o <<" ">> :
            a \in GoodElements, b \in GoodElements, c \in GoodElements \cup BadElements}
    \cup EnumTexts

CallParseEnum == \E k \in FieldKinds : Return(k, parse_enum(input, k))

SpecEnum == InitCall(EnumInputs, {None}) /\ [][CallParseEnum]_vars

(* Users *)

UserInputs ==
    {<<"r", "o", "o", "t">>, <<"t", "o", "o", "r">>, <<"R", "o", "o", "t">>,
     <<"R", "O", "O", "T">>, <<"w", "h", "a", "t", "e", "v", "e", "r">>,
     <<"r", "o", "o", "t", " ", "/", "u", "s", "r", "/", "b", "i", "n", "/", "l", "o", "c", "a", "l">>,
     <<"n", "o", "t", "r", "o", "o", "t", " ", "x">>, <<>>, <<" ", "r", "o", "o", "t">>,
     <<"-", "x">>, <<"m", "y", "-", "u", "s", "e", "r">>, <<"r", "o", "o", "t", "2">>, <<"r">>,
     <<"b", "f", "a", "u", "c", "o", "n", "\t", "x">>, <<"_", "r", "o", "o", "t">>,
     <<"r", "o", "o", "t", "=">>}

UserLists ==
    {None, Some(<<>>), Some(<< <<"r", "o", "o", "t">> >>), Some(<< <<"r", "o", "o", "t">>, <<"n", "o", "t", "r", "o", "o", "t">> >>),
     Some(<< <<>> >>), Some(<< <<"R", "o", "o", "t">>, <<"m", "y", "-", "u", "s", "e", "r">> >>)}

CallParseUser == Return("none", parse_user(input, options))

SpecUser == InitCall(UserInputs, UserLists) /\ [][CallParseUser]_vars

(* Command lines *)

CmdShort == 4

CmdSlack == 3

PercentSpan == 3

\* n bytes, the p-th a '%' (none when p = 0)
CommandOf(n, p, fill) == [x \in 1..n |-> IF x = p THEN "%" ELSE fill]

CommandInputs ==
    {CommandOf(n, p, fill) :
        n \in (0..CmdShort) \cup ((MaxCommandLine - CmdSlack)..(MaxCommandLine + CmdSlack)),
        p \in (0..PercentSpan) \cup {MaxCommandLine - 1, MaxCommandLine, MaxCommandLine + 1},
        fill \in {"a", " "}}

CallParseCommandLine == Return("none", parse_command_line(input))

SpecCommand == InitCall(CommandInputs, {None}) /\ [][CallParseCommandLine]_vars

(* The driver *)

MaxLines == 3

\* What standard input can yield: lines, and a read error
RunLines ==
    {<<"*", " ", "*", " ", "*", " ", "*", " ", "*", " ", "r", "o", "o", "t", " ", "x">>,
     <<"#", "c">>, <<>>,
     <<"6", "0", " ", "*", " ", "*", " ", "*", " ", "*", " ", "r", "o", "o", "t", " ", "x">>,
     <<"*", " ", "*", " ", "*", " ", "*", " ", "*", " ", "r", "o", "o", "t">>}

Entries == {Ok(l) : l \in RunLines} \cup {ReadError}

RECURSIVE SeqsUpTo(_, _)
SeqsUpTo(S, n) ==
    IF n = 0 THEN {<<>>}
    ELSE LET shorter == SeqsUpTo(S, n - 1)
         IN  shorter \cup {Append(q, e) : q \in {x \in shorter : Len(x) = n - 1}, e \in S}

\* -u is given or left at its default, one empty name
CliUsernames == {<< <<>> >>, << <<"r", "o", "o", "t">> >>}

PasswdFiles ==
    {[flag |-> FALSE, ok |-> TRUE, names |-> <<>>],
     [flag |-> TRUE, ok |-> TRUE, names |-> << <<"r", "o", "o", "t">>, <<"d", "a", "e", "m", "o", "n">> >>],
     [flag |-> TRUE, ok |-> FALSE, names |-> <<>>]}

InitRun ==
    /\ pc = "args"
    /\ input = <<>>
    /\ options \in {Some(u) : u \in CliUsernames}
    /\ kind = "none"
    /\ result = NoResult
    /\ stdin \in SeqsUpTo(Entries, MaxLines)
    /\ passwd \in PasswdFiles
    /\ lineno = 0
    /\ parsed = <<>>
    /\ printed = <<>>
    /\ exit_code = -1

SpecRun == InitRun /\ [][run \/ parse_crontab]_vars


---------------------------------------------------------------------------
(* Claims about parse_crontab, under SpecLine *)

Taxonomy ==
    {"InvalidEnumField", "ValueOutOfBounds", "InvalidNumericValue", "InvalidPeriodField",
     "InvalidFieldSeparator", "InvalidUsername", "InvalidCommandLine"}

Blank == {" ", "\t"}

Alnum == Digits \cup Letters

IsBlankLine(l) == \A n \in 1..Len(l) : l[n] \in Blank

IsCommentLine(l) ==
    \E n \in 1..Len(l) : l[n] = "#" /\ \A m \in 1..(n - 1) : l[m] \in Blank

IsAssignmentLine(l) ==
    \E n \in 2..Len(l) : l[n] = "=" /\ \A m \in 1..(n - 1) : l[m] \in Alnum

HasShape(l) == IsBlankLine(l) \/ IsCommentLine(l) \/ IsAssignmentLine(l)

\* The names of an allow-list
Names(opts) == {opts.names[n] : n \in 1..Len(opts.names)}

\* Field texts that are valid where they stand
GoodMonthTexts == {Star, <<"j", "a", "n">>}

GoodDayOfWeekTexts == {Star, <<"m", "o", "n", ",", "t", "u", "e">>, <<"0", "-", "7">>}

\* The five fields and what separates them
FiveFields == {<<m, Star, Star, mo, d>> :
                  m \in ValidMinuteTexts, mo \in GoodMonthTexts, d \in GoodDayOfWeekTexts}

\* The first n of the fields f, s between them
RECURSIVE Join(_, _, _)
Join(f, s, n) == IF n = 1 THEN f[1] ELSE Join(f, s, n - 1) \o s \o f[n]

\* C1: whenever parse_crontab returns success the remainder is empty, whatever
\* the allow-list and whichever line shape matched.
C1_SuccessConsumesLine ==
    (pc = "returned" /\ result.tag = "Done") => result.rest = <<>>

\* A schedule line with a command of several words was accepted.
C1_Witness ==
    /\ pc = "returned"
    /\ result.tag = "Done"
    /\ options = Some(<< <<"r", "o", "o", "t">> >>)
    /\ input = FieldsOf(<<"8">>, <<" ">>, <<"j", "a", "n">>, <<"m", "o", "n", ",", "t", "u", "e">>) \o <<"r", "o", "o", "t">> \o <<" ">> \o <<"/", "b", "i", "n", "/", "a", " ", "b">>

\* Lines that stop right after a valid field, after "*/" in the place of a
\* field, or after a user name the allow-list accepts
EndsAfterField == {Join(f, s, n) : f \in FiveFields, s \in Separators, n \in 1..5}

EndsAfterStarSlash ==
    {<<"*", "/">>} \cup {Join(f, s, n) \o s \o <<"*", "/">> :
                            f \in FiveFields, s \in Separators, n \in 1..4}

EndsAfterUser(opts) ==
    {Join(f, s, 5) \o s \o u :
        f \in FiveFields, s \in Separators,
        u \in {v \in PlainUsers : ~opts.some \/ v \in Names(opts)}}

\* C5 as stated: the outcome of parse_crontab is Success with the whole line
\* consumed or Failure with a diagnostic, never Incomplete.
C5_TwoOutcomes ==
    pc = "returned" =>
        \/ result.tag = "Done" /\ result.rest = <<>>
        \/ result.tag = "Error" /\ Len(result.err) > 0

\* C5 amended: the outcome is Success with the whole line consumed, Failure
\* with a diagnostic of the taxonomy, or Incomplete; Incomplete is what a line
\* gets that ends right after a valid field, after "*/" or after an accepted
\* user name.
C5_ThreeOutcomes ==
    pc = "returned" =>
        /\ \/ result.tag = "Done" /\ result.rest = <<>>
           \/ /\ result.tag = "Error"
              /\ Len(result.err) > 0
              /\ \A n \in 1..Len(result.err) : result.err[n].kind \in Taxonomy
           \/ result = Incomplete
        /\ input \in EndsAfterField \cup EndsAfterStarSlash \cup EndsAfterUser(options)
                => result = Incomplete

\* A line that ends after the user name came back Incomplete.
C5_Witness ==
    /\ pc = "returned"
    /\ result = Incomplete
    /\ options = Some(<< <<"r", "o", "o", "t">> >>)
    /\ input = Join(<<Star, Star, Star, Star, Star>>, <<" ">>, 5) \o <<" ">> \o <<"r", "o", "o", "t">>

\* C6: blank line, comment, assignment and schedule line are tried in this
\* order and the first success wins: a line of one of the first three shapes
\* succeeds whatever follows and the schedule grammar is never applied to it;
\* for any other line the result is the schedule line's own result, with no
\* diagnostic of the earlier attempts in it.
C6_ShapesInOrder ==
    /\ pc = "parse_comment" => ~IsBlankLine(input)
    /\ pc = "parse_environnment_variable" => ~IsBlankLine(input) /\ ~IsCommentLine(input)
    /\ pc = "crontab_line" => ~HasShape(input)
    /\ pc = "returned" =>
          IF HasShape(input)
          THEN result = Done(<<>>, <<>>)
          ELSE /\ result = crontab_line(input, options)
               /\ \A n \in 1..Len(result.err) : result.err[n].kind \in Taxonomy

\* A malformed schedule line behind "V=" was accepted as an assignment.
C6_Witness ==
    /\ pc = "returned"
    /\ result.tag = "Done"
    /\ input = <<"V", "=">> \o FieldsOf(<<"6", "0">>, <<" ">>, Star, Star)
                   \o <<"r", "o", "o", "t">> \o <<" ", "x">>

\* Schedule lines whose five fields are valid and whose user column holds a
\* byte that is not alphanumeric: the line, the input at the user column and
\* the length of the column's leading alphanumeric run.
TokenLen(u) ==
    CHOOSE n \in 0..Len(u) :
        /\ \A m \in 1..n : u[m] \in Alnum
        /\ n = Len(u) \/ u[n + 1] \notin Alnum

OddUserLines ==
    {[line |-> Join(f, s, 5) \o s \o u \o t, col |-> u \o t, token |-> TokenLen(u)] :
        f \in FiveFields, s \in Separators, u \in OddUsers,
        t \in {<<>>} \cup {s2 \o c : s2 \in Separators, c \in Commands}}

OddUserInputs == {x.line : x \in OddUserLines}

\* C10: a schedule line with five valid fields and a user column holding a
\* byte that is not alphanumeric never succeeds, even when the allow-list
\* holds the column: it fails with InvalidUsername at the column (the token is
\* empty or not in a supplied list) or with InvalidFieldSeparator right after
\* the token.
C10_OddUserColumnFails ==
    (pc = "returned" /\ input \in OddUserInputs) =>
        \A x \in {y \in OddUserLines : y.line = input} :
            LET token == Take(x.col, x.token)
            IN  /\ result.tag = "Error"
                /\ Len(result.err) = 1
                /\ IF x.token = 0 \/ (options.some /\ token \notin Names(options))
                   THEN result.err[1].kind = "InvalidUsername" /\ result.err[1].at = x.col
                   ELSE /\ result.err[1].kind = "InvalidFieldSeparator"
                        /\ result.err[1].at = Drop(x.col, x.token)

\* The allow-list holds "my-user" and the line with that user column failed
\* at the '-'.
C10_Witness ==
    /\ pc = "returned"
    /\ <<"m", "y", "-", "u", "s", "e", "r">> \in Names(options)
    /\ input = Join(<<Star, Star, Star, Star, Star>>, <<" ">>, 5) \o <<" ">>
                   \o <<"m", "y", "-", "u", "s", "e", "r">> \o <<" ", "x">>
    /\ result.tag = "Error"
    /\ result.err[1].kind = "InvalidFieldSeparator"
    /\ result.err[1].at = <<"-", "u", "s", "e", "r", " ", "x">>


---------------------------------------------------------------------------
(* Claims about the value parsers, under SpecValue *)

\* The bounds of each field kind, as the claims give them
Bounds ==
    [minute |-> <<0, 59>>, hour |-> <<0, 24>>, day_of_month |-> <<0, 31>>,
     month |-> <<1, 12>>, day_of_week |-> <<0, 7>>]

Lo(k) == Bounds[k][1]

Hi(k) == Bounds[k][2]

SampleTexts == {[n |-> n, text |-> DecimalText(n)] : n \in IntSamples}

IsOutOfBounds(r, n, k, at) ==
    /\ r.tag = "Error"
    /\ Len(r.err) = 1
    /\ r.err[1].kind = "ValueOutOfBounds"
    /\ r.err[1].value = n
    /\ r.err[1].min = Lo(k)
    /\ r.err[1].max = Hi(k)
    /\ r.err[1].at = at

\* An Error of one cause, of kind k at the input at
IsError(r, k, at) ==
    /\ r.tag = "Error"
    /\ Len(r.err) = 1
    /\ r.err[1].kind = k
    /\ r.err[1].at = at

\* C4 as stated: the decimal text of an integer within the field's bounds is
\* accepted, that of every integer outside them fails with ValueOutOfBounds
\* carrying the integer and the bounds.
C4_EveryInteger ==
    pc = "returned" =>
        \A x \in {y \in SampleTexts : y.text = input} :
            IF Lo(kind) <= x.n /\ x.n <= Hi(kind)
            THEN result = Done(<<>>, <<>>)
            ELSE IsOutOfBounds(result, x.n, kind, input)

\* C4 amended: within the bounds accepted; outside them and from 0 to
\* i32::MAX ValueOutOfBounds with the integer and the bounds; a negative
\* integer, whose text starts with '-', and a digit run above i32::MAX fail
\* with InvalidNumericValue.
C4_RepresentableIntegers ==
    pc = "returned" =>
        /\ \A x \in {y \in SampleTexts : y.text = input} :
              IF Lo(kind) <= x.n /\ x.n <= Hi(kind)
              THEN result = Done(<<>>, <<>>)
              ELSE IF x.n >= 0
              THEN IsOutOfBounds(result, x.n, kind, input)
              ELSE IsError(result, "InvalidNumericValue", input)
        /\ input \in OverflowTexts => IsError(result, "InvalidNumericValue", input)

\* The hour parser refused 25 with the value and the bounds.
C4_Witness ==
    /\ pc = "returned"
    /\ kind = "hour"
    /\ input = <<"2", "5">>
    /\ IsOutOfBounds(result, 25, "hour", input)

---------------------------------------------------------------------------
(* Claims about parse_period, under SpecPeriod *)

StarSlash == <<"*", "/">>

\* What C8 says of every input but "*/"
PeriodCases ==
    /\ input = Star => result = Done(<<>>, <<>>)
    /\ \A n \in Lo(kind)..Hi(kind) :
          input = StarSlash \o DecimalText(n) => result = Done(<<>>, <<>>)
    /\ (Len(input) >= 1 /\ input[1] = "*" /\ (Len(input) = 1 \/ input[2] # "/"))
          => result = Done(Tail(input), <<>>)
    /\ input = StarSlash \o <<"a", "b", "c">> =>
          /\ result.tag = "Error"
          /\ Len(result.err) = 2
          /\ result.err[1].kind = "InvalidPeriodField"
          /\ result.err[2].kind = "InvalidNumericValue"
          /\ result.err[2].at = <<"a", "b", "c">>
    /\ (Len(input) = 0 \/ input[1] # "*") => IsError(result, "InvalidPeriodField", input)

\* C8 as stated: "*" and "*/N" are accepted, "*" not followed by '/' leaves
\* the rest, "*/abc" and "*/" fail with InvalidPeriodField wrapping the step's
\* cause, an input without '*' fails with InvalidPeriodField.
C8_MissingStepFails ==
    pc = "returned" =>
        /\ PeriodCases
        /\ input = StarSlash =>
              /\ result.tag = "Error"
              /\ Len(result.err) = 2
              /\ result.err[1].kind = "InvalidPeriodField"

\* C8 amended: as stated, but "*/" with nothing after it is Incomplete, not
\* a failure.
C8_MissingStepIncomplete ==
    pc = "returned" =>
        /\ PeriodCases
        /\ input = StarSlash => result = Incomplete

\* "*/" was parsed as a period of the month and came back Incomplete.
C8_Witness ==
    /\ pc = "returned"
    /\ kind = "month"
    /\ input = StarSlash
    /\ result = Incomplete

---------------------------------------------------------------------------
(* Claims about parse_enum, under SpecEnum *)

\* C2: the failure of any element, the first or a later one after a ',',
\* fails the enumeration with InvalidEnumField wrapping the element's own
\* diagnostic.
C2_AnyElementFails ==
    pc = "returned" =>
        \A t \in ListTails, b \in BadElements :
            (\/ input = b \o t
             \/ \E a \in GoodElements : input = a \o <<",">> \o b \o t)
            => /\ result.tag = "Error"
               /\ Len(result.err) = 2
               /\ result.err[1].kind = "InvalidEnumField"
               /\ result.err[2].kind \in {"ValueOutOfBounds", "InvalidNumericValue"}

---------------------------------------------------------------------------
(* Claims about parse_user, under SpecUser *)

\* C7: parse_user wants a non-empty alphanumeric token; with an allow-list it
\* succeeds iff the token is one of its entries, without one every token
\* succeeds; every failure is InvalidUsername and a success leaves the input
\* after the token.
C7_UserToken ==
    pc = "returned" =>
        LET n == TokenLen(input)
            token == Take(input, n)
        IN  /\ result.tag = "Done" => n > 0 /\ result.rest = Drop(input, n)
            /\ result.tag = "Error" => IsError(result, "InvalidUsername", input)
            /\ (n > 0 /\ ~options.some) => result.tag = "Done"
            /\ (n > 0 /\ options.some) => (result.tag = "Done" <=> token \in Names(options))
            /\ (n = 0 /\ Len(input) > 0) => result.tag = "Error"

\* With an allow-list that is present and empty, "root" was refused.
C7_Witness ==
    /\ pc = "returned"
    /\ options = Some(<<>>)
    /\ input = <<"r", "o", "o", "t", " ", "/", "u", "s", "r", "/", "b", "i", "n", "/", "l", "o", "c", "a", "l">>
    /\ IsError(result, "InvalidUsername", input)

---------------------------------------------------------------------------
(* Claims about parse_command_line, under SpecCommand *)

HasPercent(l) == \E n \in 1..Len(l) : l[n] = "%"

IsInvalidCommandLine(r, reason) ==
    /\ r.tag = "Error"
    /\ Len(r.err) = 1
    /\ r.err[1].kind = "InvalidCommandLine"
    /\ r.err[1].reason = reason

\* C3 as stated: a '%' anywhere gives the reason about '%' whatever the
\* length; without '%', up to 999 bytes are accepted and 1000 or more give
\* the reason about the length.
C3_PercentFirst ==
    pc = "returned" =>
        IF HasPercent(input)
        THEN IsInvalidCommandLine(result, "special char % should not be used")
        ELSE IF Len(input) <= 999
        THEN result = Done(<<>>, <<>>)
        ELSE IsInvalidCommandLine(result, "command line can not exceed 999 characters")

\* C3 amended: 1000 bytes or more give the reason about the length, with or
\* without a '%'; up to 999 bytes a '%' anywhere gives the reason about '%'
\* and a remainder without '%' is accepted.
C3_LengthFirst ==
    pc = "returned" =>
        IF Len(input) >= 1000
        THEN IsInvalidCommandLine(result, "command line can not exceed 999 characters")
        ELSE IF HasPercent(input)
        THEN IsInvalidCommandLine(result, "special char % should not be used")
        ELSE result = Done(<<>>, <<>>)

\* 1000 bytes with a '%' among them were refused for their length.
C3_Witness ==
    /\ pc = "returned"
    /\ Len(input) = 1000
    /\ HasPercent(input)
    /\ IsInvalidCommandLine(result, "command line can not exceed 999 characters")

---------------------------------------------------------------------------
(* Claims about run, under SpecRun *)

\* The lines of RunLines that parse successfully under the allow-list
ParsesWell(l) ==
    \/ l = <<>>
    \/ l = <<"#", "c">>
    \/ l = Join(<<Star, Star, Star, Star, Star>>, <<" ">>, 5) \o <<" ">> \o <<"r", "o", "o", "t">> \o <<" ", "x">>
          /\ <<"r", "o", "o", "t">> \in Names(options)

\* C9: the lines are parsed in order; the loop goes on after a success, stops
\* with 1 at the first line that fails or is incomplete, reporting it, with
\* 2 at an I/O error on a line or on the username source, and returns 0 only
\* if every line parsed successfully; after that no line is parsed.
C9_DriverLoop ==
    /\ parsed = [n \in 1..Len(parsed) |-> n]
    /\ Len(parsed) <= lineno /\ lineno <= Len(stdin)
    /\ (pc = "exit") <=> (exit_code # -1)
    /\ exit_code \in {-1, 0, 1, 2}
    /\ \A n \in 1..(Len(parsed) - 1) : stdin[n].ok /\ ParsesWell(stdin[n].line)
    /\ (pc = "loop" /\ lineno > 0) => ParsesWell(stdin[lineno].line)
    /\ exit_code = 0 =>
          /\ Len(parsed) = Len(stdin)
          /\ \A n \in 1..Len(stdin) : stdin[n].ok /\ ParsesWell(stdin[n].line)
          /\ printed = <<>>
    /\ exit_code = 1 =>
          /\ lineno >= 1 /\ Len(parsed) = lineno
          /\ stdin[lineno].ok /\ ~ParsesWell(stdin[lineno].line)
          /\ result.tag \in {"Error", "Incomplete"}
          /\ Len(printed) = 1 /\ printed[1].line = lineno
    /\ exit_code = 2 =>
          \/ passwd.flag /\ ~passwd.ok /\ parsed = <<>> /\ lineno = 0
          \/ lineno >= 1 /\ ~stdin[lineno].ok /\ Len(parsed) = lineno - 1
    /\ (passwd.flag /\ ~passwd.ok) => parsed = <<>>
    /\ pc = "exit" => ~ENABLED (run \/ parse_crontab)

\* The second of three lines was incomplete: the run stopped with 1 and the
\* third line was not parsed.
C9_Witness ==
    /\ exit_code = 1
    /\ Len(stdin) = 3
    /\ parsed = <<1, 2>>
    /\ result = Incomplete
    /\ printed[1].line = 2


====
